---------------------------- MODULE Spec2Model ----------------------------
(***************************************************************************)
(* A model of displaylcd.c: a character device driver for a 16x2 HD44780   *)
(* display wired in 4-bit mode to six GPIO lines.  The model follows the   *)
(* source function by function: the pin-level transfer routines            *)
(* (lcd_nibble, lcd_byte), the controller commands (lcd_cls, lcd_pos,      *)
(* lcd_print), the file operations (device_open, device_release,           *)
(* device_read, device_write) and module load/unload (inicializa,          *)
(* finaliza).  Bytes are integers 0..255; unsigned char arithmetic is      *)
(* taken modulo 256.                                                       *)
(***************************************************************************)
EXTENDS Integers, Sequences, FiniteSets, TLC

VARIABLES
    phase,        \* "unloaded" | "ready": whether inicializa has returned 0;
                  \* "oops" after a fault in inicializa; "init_..." and
                  \* "exit_..." while inicializa or finaliza is under way
    held,         \* kernel resources currently held by the module
    gpio,         \* the six lines and what the attached controller saw:
                  \*   level   : pin index -> 0/1
                  \*   calls   : gpio_set_value calls of the last handler, in order
                  \*   latched : what the controller latched at each EN falling
                  \*             edge during the last handler: [rs, nib]
    Device_Open,  \* the driver's "already open" flag
    minor,        \* minor number stored by the last successful open
    message,      \* static char message[32], as a sequence of 32 bytes
    refs,         \* module use count (try_module_get / module_put)
    pc,           \* per user process: "idle" | "opening" | "open"
    node,         \* per user process: minor of the node it opens / has open
    last,         \* the last handler run: its inputs, return value and the
                  \* controller routine it called; for inicializa also
                  \* the module parameters <<line1, line2>> it ran with
    todo          \* per thread of the holder: the gpio_set_value calls its
                  \* write in flight has still to make (<<>> when it has none)

vars ==
    <<phase, held, gpio, Device_Open, minor, message, refs, pc, node, last, todo>>

-----------------------------------------------------------------------------
(* Bounds of the model *)

\* number of user processes
NProcs == 2
\* longest run of ignored bytes appended after a two-byte position payload
MaxTail == 1
\* how many latched nibbles are remembered while writes overlap
MaxSeen == 4

Procs == 1..NProcs

\* the two threads of the holder that write through one open file
Threads == {1, 2}

-----------------------------------------------------------------------------
(* Program constants *)

\* indices into the pins[] array
RS == 0
EN == 1
DB4 == 2
DB5 == 3
DB6 == 4
DB7 == 5

PinIdx == RS..DB7

\* sizeof(message)
MessageSize == 32
\* largest len device_write accepts
MaxWriteLen == 30
\* loop bound of lcd_print
PrintCap == 16
\* -EBUSY
EBUSY == 16

\* static char * line1, * line2: the default texts, as bytes
line1_default == <<32, 82, 97, 115, 112, 98, 101, 114, 114, 121, 32, 80, 105, 32, 51, 32>>
line2_default == <<32, 32, 76, 67, 68, 32, 32, 68, 105, 115, 112, 108, 97, 121, 32, 32>>

\* a C string: the bytes followed by the terminating NUL
CStr(s) == s \o <<0>>

-----------------------------------------------------------------------------
(* The transfer routines.  No routine of the driver reads a line back, so   *)
(* each is modelled by the sequence of gpio_set_value calls it makes, each  *)
(* call a pair <<pin index, value>>; Drive below performs such a sequence   *)
(* on the lines.  The delays between the calls change no state.             *)

\* bit k (0..3) of an unsigned char: nibble & (1 << k) ? 1 : 0
Bit(x, k) == (x \div (2 ^ k)) % 2

\* Faulty variant of lcd_nibble that puts the most significant bit on DB4;
\* C15_NibbleProtocol rejects it.
lcd_nibble_MsbOnDB4(nibble) ==
    << <<EN, 1>>,
       <<DB4, (nibble \div 8) % 2>>, <<DB5, (nibble \div 4) % 2>>,
       <<DB6, (nibble \div 2) % 2>>, <<DB7, nibble % 2>>,
       <<EN, 0>> >>

lcd_nibble(nibble) ==
    << <<EN, 1>>,
       <<DB4, Bit(nibble, 0)>>, <<DB5, Bit(nibble, 1)>>,
       <<DB6, Bit(nibble, 2)>>, <<DB7, Bit(nibble, 3)>>,
       <<EN, 0>> >>

\* Faulty variant of lcd_byte that leaves RS as it was; C4_ModeCharacter
\* rejects it.
lcd_byte_NoRS(byte) ==
    lcd_nibble(byte \div 16) \o lcd_nibble(byte)

\* Faulty variant of lcd_byte that sends the low nibble first;
\* C16_ByteRoundTrip rejects it.
lcd_byte_LowFirst(byte) ==
    lcd_nibble(byte) \o lcd_nibble(byte \div 16) \o << <<RS, 1>> >>

lcd_byte(byte) ==
    lcd_nibble(byte \div 16) \o lcd_nibble(byte) \o << <<RS, 1>> >>

\* Faulty variant of lcd_cls that does not set RS low first; C5_ClearChannel
\* rejects it.
lcd_cls_NoRS ==
    lcd_byte(1)

lcd_cls ==
    << <<RS, 0>> >> \o lcd_byte(1)

\* pos | 0x80 on an unsigned char
Or80(x) == IF x >= 128 THEN x ELSE x + 128

\* Faulty variant of lcd_pos that does not set RS low first; C14_ModePerByte
\* rejects it.
lcd_pos_NoRS(pos) ==
    lcd_byte(IF ((pos + 255) % 256) > 15
             THEN Or80((((pos + 255) % 256) + 48) % 256)
             ELSE Or80((pos + 255) % 256))

\* Faulty variant of PosCommand whose second line starts one place late
\* (pos > 16); C1_PosCommand rejects it.
PosCommand_Late(pos) ==
    LET p1 == (pos + 255) % 256
        p2 == IF p1 > 16 THEN (p1 + 48) % 256 ELSE p1
    IN  Or80(p2)

\* the command byte lcd_pos computes from its unsigned char argument
PosCommand(pos) ==
    LET p1 == (pos + 255) % 256                          \* pos--
        p2 == IF p1 > 15 THEN (p1 + 48) % 256 ELSE p1    \* second line
    IN  Or80(p2)

lcd_pos(pos) ==
    << <<RS, 0>> >> \o lcd_byte(PosCommand(pos))

\* Faulty variant of PrintFrom whose loop runs to x <= 16; C3_PrintPrefix
\* rejects it.
RECURSIVE PrintFrom_Cap17(_, _)
PrintFrom_Cap17(buffer, x) ==
    IF x >= PrintCap + 1 THEN <<>>
    ELSE IF buffer[x + 1] = 0 THEN <<>>
    ELSE lcd_byte(buffer[x + 1]) \o PrintFrom_Cap17(buffer, x + 1)

\* the for loop of lcd_print from index x on; buffer is 1-based here, so
\* buffer[x] of the source is buffer[x + 1]
RECURSIVE PrintFrom(_, _)
PrintFrom(buffer, x) ==
    IF x >= PrintCap THEN <<>>
    ELSE IF buffer[x + 1] = 0 THEN <<>>
    ELSE lcd_byte(buffer[x + 1]) \o PrintFrom(buffer, x + 1)

lcd_print(buffer) == PrintFrom(buffer, 0)

-----------------------------------------------------------------------------
(* The GPIO lines and the controller attached to them *)

\* One gpio_set_value(pins[pin].gpio, v) on the lines h.  The controller
\* latches RS and DB4..DB7 on the falling edge of EN.
gpio_set_value(h, pin, v) ==
    LET lv == h.level
        nib == lv[DB4] + 2 * lv[DB5] + 4 * lv[DB6] + 8 * lv[DB7]
        falling == pin = EN /\ v = 0 /\ lv[EN] = 1
    IN  [level   |-> [lv EXCEPT ![pin] = v],
         calls   |-> Append(h.calls, <<pin, v>>),
         latched |-> IF falling
                     THEN Append(h.latched, [rs |-> lv[RS], nib |-> nib])
                     ELSE h.latched]

\* The calls cs[1..hi] of a handler performed in order on the lines h, which
\* record in h.calls how many of them have been made already.
RECURSIVE DriveTo(_, _, _)
DriveTo(h, cs, hi) ==
    LET done == Len(h.calls)
    IN  IF done >= hi THEN h
        ELSE IF done + 1 = hi THEN gpio_set_value(h, cs[hi][1], cs[hi][2])
        ELSE DriveTo(DriveTo(h, cs, (done + hi) \div 2), cs, hi)

\* a handler that makes the calls cs, run from its start on the lines h
Drive(h, cs) == DriveTo(h, cs, Len(cs))

\* the bytes a 4-bit-mode controller assembles from what it latched:
\* consecutive nibbles pair up, high nibble first
RECURSIVE Received(_)
Received(l) ==
    IF Len(l) < 2 THEN <<>>
    ELSE << [rs |-> l[1].rs, rs2 |-> l[2].rs, byte |-> 16 * l[1].nib + l[2].nib] >>
         \o Received(SubSeq(l, 3, Len(l)))

-----------------------------------------------------------------------------
(* device_write: the channel dispatcher *)

\* Faulty variant of TooLong that lets 31 bytes through; C6_TooLongIgnored
\* rejects it.
TooLong_31(len) == len > MaxWriteLen + 1

\* if(len > 30)
TooLong(len) == len > MaxWriteLen

\* (c >= '0') && (c <= '9')
IsDigit(c) == c >= 48 /\ c <= 57

\* Faulty variant of CopyToMessage that does not store the terminator;
\* C20_NoLeakNoOverrun rejects it.
CopyToMessage_NoTerminator(msg, buffer) ==
    [i \in 1..MessageSize |-> IF i <= Len(buffer) THEN buffer[i] ELSE msg[i]]

\* memcpy(message, buffer, len); message[len] = 0;
CopyToMessage(msg, buffer) ==
    [i \in 1..MessageSize |->
        IF i <= Len(buffer) THEN buffer[i]
        ELSE IF i = Len(buffer) + 1 THEN 0
        ELSE msg[i]]

\* Faulty variant of OneBytePos that forgets to subtract '0';
\* C9_PathEquivalence rejects it.
OneBytePos_Raw(buffer) ==
    IF buffer[1] >= 48 /\ buffer[1] <= 57 THEN buffer[1] ELSE -1

\* len == 1 on the position channel: the position, or -1 when lcd_pos is
\* not called
OneBytePos(buffer) ==
    IF IsDigit(buffer[1]) THEN buffer[1] - 48 ELSE -1

\* Faulty variant of TwoBytePos that multiplies by 10 before testing the
\* second byte; C7_TwoBytePath rejects it.
TwoBytePos_Always10(buffer) ==
    LET p0 == IF buffer[1] >= 48 /\ buffer[1] <= 57 THEN buffer[1] - 48 ELSE 0
    IN  IF buffer[2] >= 48 /\ buffer[2] <= 57
        THEN (p0 * 10 + buffer[2] - 48) % 256
        ELSE (p0 * 10) % 256

\* len >= 2 on the position channel: the value of pos after both digit tests
TwoBytePos(buffer) ==
    LET p0 == IF IsDigit(buffer[1]) THEN buffer[1] - 48 ELSE 0
    IN  IF IsDigit(buffer[2]) THEN (p0 * 10 + buffer[2] - 48) % 256 ELSE p0

\* (pos != 0) && (pos <= 32)
PosAccepted(pos) == pos # 0 /\ pos <= 32

\* which controller routine a handler called, and with what argument
Call(f, a) == [fn |-> f, arg |-> a]
NoCall == Call("none", -1)

\* The result of device_write with the stored minor mnr on the user buffer:
\* the gpio_set_value calls made, the message buffer afterwards, the return
\* value and the controller routine that was called (NoCall when none was).
device_write(msg, mnr, buffer) ==
    LET len == Len(buffer)
        none == [calls |-> <<>>, message |-> msg, ret |-> len, called |-> NoCall]
    IN  IF TooLong(len) THEN none
        ELSE IF mnr = 1 THEN
            [none EXCEPT !.calls = lcd_cls, !.called = Call("lcd_cls", -1)]
        ELSE IF mnr = 2 THEN
            IF len = 0 THEN none
            ELSE IF len = 1 THEN
                IF OneBytePos(buffer) >= 0
                THEN [none EXCEPT !.calls = lcd_pos(OneBytePos(buffer)),
                                  !.called = Call("lcd_pos", OneBytePos(buffer))]
                ELSE none
            ELSE
                IF PosAccepted(TwoBytePos(buffer))
                THEN [none EXCEPT !.calls = lcd_pos(TwoBytePos(buffer)),
                                  !.called = Call("lcd_pos", TwoBytePos(buffer))]
                ELSE none
        ELSE IF mnr = 0 THEN
            LET m2 == CopyToMessage(msg, buffer)
            IN  [none EXCEPT !.calls = lcd_print(m2), !.message = m2,
                             !.called = Call("lcd_print", -1)]
        ELSE none

-----------------------------------------------------------------------------
(* Inputs *)

Digits == 48..57

Letters31 ==
    <<65, 66, 67, 68, 69, 70, 71, 72, 73, 74, 75, 76, 77, 78, 79, 80,
      81, 82, 83, 84, 85, 86, 87, 88, 89, 90, 97, 98, 99, 100, 101>>

\* "HELLO", "HI\0X", and texts of 17, 20, 30 and 31 letters
PlainPayloads ==
    { <<>>, <<72, 69, 76, 76, 79>>, <<72, 73, 0, 88>>,
      SubSeq(Letters31, 1, 17), SubSeq(Letters31, 1, 20),
      SubSeq(Letters31, 1, 30), Letters31 }

ClsPayloads == { <<>>, SubSeq(Letters31, 1, 30), Letters31 }

\* "0", "5", "/", "00", "05", "17", "33", "5\n", "057" and one too long
FewPosPayloads ==
    { <<>>, <<48>>, <<53>>, <<47>>, <<48, 48>>, <<48, 53>>, <<49, 55>>,
      <<51, 51>>, <<53, 10>>, <<48, 53, 55>>, Letters31 }

\* the payloads tried on the node with minor number m
Payloads(m) ==
    CASE m = 0 -> PlainPayloads
      [] m = 1 -> ClsPayloads
      [] m = 2 -> FewPosPayloads

\* For the position channel alone: bytes tried in the first and in the second
\* place of a payload (the digits, their ASCII neighbours '/' and ':', and a
\* line feed), and the bytes tried in the places after the second
PosFirst == {48, 49, 50, 51, 53, 57, 47, 10}
PosSecond == Digits \cup {47, 58, 10}
TailBytes == {55}

PosPairs == {<<a, b>> : a \in PosFirst, b \in PosSecond}
Tails == UNION {[1..n -> TailBytes] : n \in 1..MaxTail}

PosPayloads ==
    {<<>>} \cup {<<b>> : b \in PosSecond} \cup PosPairs
    \cup {p \o t : p \in {<<48, 53>>, <<53, 10>>, <<51, 51>>, <<47, 47>>}, t \in Tails}
    \cup {<<49, 55>> \o SubSeq(Letters31, 1, 28), <<49, 55>> \o SubSeq(Letters31, 1, 29)}

\* the device nodes inicializa creates
Minors == 0..2

\* values of the module parameters line1 and line2
Line1Values == { line1_default, <<>>, SubSeq(Letters31, 1, 20) }
Line2Values == { line2_default, <<72, 73>> }

-----------------------------------------------------------------------------
(* State *)

NoGpio == [level |-> [p \in PinIdx |-> 0], calls |-> <<>>, latched |-> <<>>]

\* the lines at the start of a handler: levels kept, record of the
\* previous handler dropped
Fresh(h) == [h EXCEPT !.calls = <<>>, !.latched = <<>>]

Handler(op, m, buf, ret, called) ==
    [op |-> op, minor |-> m, buf |-> buf, ret |-> ret, called |-> called,
     lines |-> <<>>]

Init ==
    /\ phase = "unloaded"
    /\ held = {}
    /\ gpio = NoGpio
    /\ Device_Open = 0
    /\ minor = 0
    /\ message = [i \in 1..MessageSize |-> 0]
    /\ refs = 0
    /\ pc = [p \in Procs |-> "idle"]
    /\ node = [p \in Procs |-> -1]
    /\ last = Handler("none", -1, <<>>, 0, NoCall)
    /\ todo = [t \in Threads |-> <<>>]

-----------------------------------------------------------------------------
(* Module load and unload *)

\* Faulty variant of InitSequence that leaves out the nibble 2 that switches
\* the controller to 4-bit mode; C17_InitOrder rejects it.
InitSequence_NoSwitch(l1, l2) ==
    lcd_nibble(3) \o lcd_nibble(3) \o lcd_nibble(3)
    \o lcd_nibble(2) \o lcd_nibble(8)
    \o lcd_nibble(0) \o lcd_nibble(12)
    \o lcd_nibble(0) \o lcd_nibble(6)
    \o lcd_cls
    \o lcd_print(l1 \o <<0>>)
    \o lcd_pos(17)
    \o lcd_print(l2 \o <<0>>)

\* Faulty variant of InitSequence that prints line2 without moving the
\* cursor to position 17 first; C11_StartupDisplay rejects it.
InitSequence_NoPos(l1, l2) ==
    lcd_nibble(3) \o lcd_nibble(3) \o lcd_nibble(3)
    \o lcd_nibble(2)
    \o lcd_nibble(2) \o lcd_nibble(8)
    \o lcd_nibble(0) \o lcd_nibble(12)
    \o lcd_nibble(0) \o lcd_nibble(6)
    \o lcd_cls
    \o lcd_print(l1 \o <<0>>)
    \o lcd_print(l2 \o <<0>>)

\* the display part of inicializa: reset, 4-bit mode, the three setup
\* commands sent as bare nibbles, clear, and the two default lines
InitSequence(l1, l2) ==
    lcd_nibble(3) \o lcd_nibble(3) \o lcd_nibble(3)
    \o lcd_nibble(2)
    \o lcd_nibble(2) \o lcd_nibble(8)       \* Function Set
    \o lcd_nibble(0) \o lcd_nibble(12)      \* Display On/Off control
    \o lcd_nibble(0) \o lcd_nibble(6)       \* Entry mode set
    \o lcd_cls
    \o lcd_print(CStr(l1))
    \o lcd_pos(17)
    \o lcd_print(CStr(l2))

\* where inicializa can fail; "class_oops" is the store to devclass->devnode
\* faulting when class_create returned an error pointer
FailPoints == {"none", "gpio", "chrdev", "class", "class_oops", "dev0", "dev1", "dev2"}

AllResources == {"gpio", "chrdev", "class", "dev0", "dev1", "dev2"}

\* what the module still holds when inicializa ends at the given point
HeldAfter(fail) ==
    CASE fail = "none"       -> AllResources
      [] fail = "gpio"       -> {}
      [] fail = "chrdev"     -> {"gpio"}
      [] fail = "class"      -> {"gpio"}
      [] fail = "class_oops" -> {"gpio", "chrdev"}
      [] fail = "dev0"       -> {"gpio"}
      [] fail = "dev1"       -> {"gpio"}
      [] fail = "dev2"       -> {"gpio"}

inicializa(l1, l2, fail) ==
    /\ phase = "unloaded"
    /\ UNCHANGED <<Device_Open, minor, message, refs, pc, node, todo>>
    /\ IF fail = "gpio" \/ "gpio" \in held
       THEN /\ UNCHANGED <<phase, held>>
            /\ gpio' = Fresh(gpio)
            /\ last' = [Handler("inicializa", -1, <<>>, -1, NoCall)
                            EXCEPT !.lines = <<l1, l2>>]
       ELSE /\ gpio' = Drive(NoGpio, InitSequence(l1, l2))
            /\ held' = HeldAfter(fail)
            /\ phase' = CASE fail = "none" -> "ready"
                          [] fail = "class_oops" -> "oops"
                          [] OTHER -> "unloaded"
            /\ last' = [Handler("inicializa", -1, <<>>,
                                IF fail = "none" THEN 0 ELSE -1, NoCall)
                            EXCEPT !.lines = <<l1, l2>>]

\* rmmod runs finaliza only when the use count is zero; it is not run here
\* while an open call is in flight
finaliza ==
    /\ phase = "ready"
    /\ refs = 0
    /\ \A p \in Procs : pc[p] = "idle"
    /\ phase' = "unloaded"
    /\ held' = {}
    /\ gpio' = Fresh(gpio)
    /\ Device_Open' = 0
    /\ minor' = 0
    /\ message' = [i \in 1..MessageSize |-> 0]
    /\ last' = Handler("finaliza", -1, <<>>, 0, NoCall)
    /\ UNCHANGED <<refs, pc, node, todo>>

-----------------------------------------------------------------------------
(* File operations, each handler run as one step *)

\* the device node inicializa creates for minor number m
DevNode(m) ==
    CASE m = 0 -> "dev0"
      [] m = 1 -> "dev1"
      [] m = 2 -> "dev2"

\* open(2) on the node of minor m reaches device_open: the character device
\* is registered and the node exists
Openable(m) == "chrdev" \in held /\ DevNode(m) \in held

\* try_module_get(THIS_MODULE), its result ignored by device_open: the use
\* count goes up unless the module is being removed
try_module_get(n) ==
    IF phase \in {"exit_devices", "exit_chrdev"} THEN n ELSE n + 1

\* module_put(THIS_MODULE): the use count goes down, never below zero
module_put(n) == IF n > 0 THEN n - 1 ELSE n

\* Faulty variant of device_open that stores the minor number before it
\* tests Device_Open; C21_RejectedOpenFrame rejects it.
device_open_StoreFirst(p, m) ==
    /\ Openable(m)
    /\ pc[p] = "idle"
    /\ minor' = m
    /\ IF Device_Open # 0
       THEN /\ last' = Handler("open", -1, <<>>, -EBUSY, NoCall)
            /\ UNCHANGED <<Device_Open, refs, pc, node>>
       ELSE /\ Device_Open' = 1
            /\ refs' = try_module_get(refs)
            /\ pc' = [pc EXCEPT ![p] = "open"]
            /\ node' = [node EXCEPT ![p] = m]
            /\ last' = Handler("open", m, <<>>, 0, NoCall)
    /\ gpio' = Fresh(gpio)
    /\ UNCHANGED <<phase, held, message, todo>>

\* open(2) on the node with minor number m by process p
device_open(p, m) ==
    /\ Openable(m)
    /\ pc[p] = "idle"
    /\ IF Device_Open # 0
       THEN /\ last' = Handler("open", -1, <<>>, -EBUSY, NoCall)
            /\ UNCHANGED <<Device_Open, minor, refs, pc, node>>
       ELSE /\ Device_Open' = 1
            /\ refs' = try_module_get(refs)
            /\ minor' = m
            /\ pc' = [pc EXCEPT ![p] = "open"]
            /\ node' = [node EXCEPT ![p] = m]
            /\ last' = Handler("open", m, <<>>, 0, NoCall)
    /\ gpio' = Fresh(gpio)
    /\ UNCHANGED <<phase, held, message, todo>>

\* close(2) by a process that has the device open; the handler runs when the
\* last user of the open file is gone, so not under a write in flight
device_release(p) ==
    /\ pc[p] = "open"
    /\ \A t \in Threads : todo[t] = <<>>
    /\ Device_Open' = 0
    /\ refs' = module_put(refs)

    /\ pc' = [pc EXCEPT ![p] = "idle"]
    /\ node' = [node EXCEPT ![p] = -1]
    /\ gpio' = Fresh(gpio)
    /\ last' = Handler("release", -1, <<>>, 0, NoCall)
    /\ UNCHANGED <<phase, held, minor, message, todo>>

\* read(2): always 0 bytes
device_read(p) ==
    /\ pc[p] = "open"
    /\ gpio' = Fresh(gpio)
    /\ last' = Handler("read", -1, <<>>, 0, NoCall)
    /\ UNCHANGED <<phase, held, Device_Open, minor, message, refs, pc, node, todo>>

\* write(2) of the bytes buf by a process that has the device open
Write(p, buf) ==
    /\ pc[p] = "open"
    /\ LET r == device_write(message, minor, buf)
       IN  /\ gpio' = Drive(Fresh(gpio), r.calls)
           /\ message' = r.message
           /\ last' = Handler("write", minor, buf, r.ret, r.called)
    /\ UNCHANGED <<phase, held, Device_Open, minor, refs, pc, node, todo>>

-----------------------------------------------------------------------------
(* device_open run by several processes at once.  The handler takes no    *)
(* lock: between its test of Device_Open and its store to it another      *)
(* process can run the same test.                                          *)

\* if(Device_Open) return -EBUSY;
OpenCheck(p, m) ==
    /\ Openable(m)
    /\ pc[p] = "idle"
    /\ IF Device_Open # 0
       THEN /\ last' = Handler("open", -1, <<>>, -EBUSY, NoCall)
            /\ UNCHANGED <<pc, node>>
       ELSE /\ pc' = [pc EXCEPT ![p] = "opening"]
            /\ node' = [node EXCEPT ![p] = m]
            /\ UNCHANGED last
    /\ gpio' = Fresh(gpio)
    /\ UNCHANGED <<phase, held, Device_Open, minor, message, refs, todo>>

\* Device_Open = 1; try_module_get(THIS_MODULE); minor = MINOR(...); return 0;
OpenSet(p) ==
    /\ pc[p] = "opening"
    /\ Device_Open' = 1
    /\ refs' = try_module_get(refs)
    /\ minor' = node[p]
    /\ pc' = [pc EXCEPT ![p] = "open"]
    /\ last' = Handler("open", node[p], <<>>, 0, NoCall)
    /\ gpio' = Fresh(gpio)
    /\ UNCHANGED <<phase, held, message, node, todo>>

\* "HI", the empty payload and "5"
RacePayloads(m) ==
    CASE m = 0 -> { <<72, 73>> }
      [] m = 1 -> { <<>> }
      [] m = 2 -> { <<53>> }

-----------------------------------------------------------------------------
(* Module load and unload statement by statement.  register_chrdev makes   *)
(* the file operations callable and each device_create makes a node        *)
(* appear, so user processes can run the file operations while inicializa  *)
(* or finaliza is still under way.  The module text is not taken away      *)
(* here under a process that still has the device open.                    *)

\* Faulty order of the steps of inicializa: the registrations first, the
\* display initialisation last; C13_InitFirst rejects it.
StepAfter_RegisterFirst(ph) ==
    CASE ph = "unloaded"     -> "init_chrdev"
      [] ph = "init_chrdev"  -> "init_class"
      [] ph = "init_class"   -> "init_dev0"
      [] ph = "init_dev0"    -> "init_dev1"
      [] ph = "init_dev1"    -> "init_dev2"
      [] ph = "init_dev2"    -> "init_display"
      [] ph = "init_display" -> "ready"

\* the order of the steps of inicializa: where it stands after the step it
\* takes at ph
StepAfter(ph) ==
    CASE ph = "unloaded"     -> "init_display"
      [] ph = "init_display" -> "init_chrdev"
      [] ph = "init_chrdev"  -> "init_class"
      [] ph = "init_class"   -> "init_dev0"
      [] ph = "init_dev0"    -> "init_dev1"
      [] ph = "init_dev1"    -> "init_dev2"
      [] ph = "init_dev2"    -> "ready"

\* the module's static variables as the loader sets them up
FreshStatics ==
    /\ Device_Open' = 0
    /\ minor' = 0
    /\ message' = [i \in 1..MessageSize |-> 0]

\* inicializa returns an error at the point fail: the module is discarded
Abort(fail) ==
    /\ \A p \in Procs : pc[p] = "idle"
    /\ phase' = "unloaded"
    /\ held' = HeldAfter(fail)
    /\ FreshStatics
    /\ gpio' = Fresh(gpio)
    /\ last' = Handler("inicializa", -1, <<>>, -1, NoCall)
    /\ UNCHANGED <<refs, pc, node, todo>>

\* inicializa goes on past the point where it acquired the resources got
Proceed(got) ==
    /\ phase' = StepAfter(phase)
    /\ held' = held \cup got
    /\ gpio' = Fresh(gpio)
    /\ last' = Handler("inicializa", -1, <<>>, 0, NoCall)
    /\ UNCHANGED <<Device_Open, minor, message, refs, pc, node, todo>>

\* ret = gpio_request_array(pins, ARRAY_SIZE(pins)); if(ret) return ret;
inicializa_request(ok) ==
    /\ phase = "unloaded"
    /\ IF ok /\ "gpio" \notin held
       THEN /\ phase' = StepAfter(phase)
            /\ held' = held \cup {"gpio"}
            /\ gpio' = NoGpio
            /\ last' = Handler("inicializa", -1, <<>>, 0, NoCall)
       ELSE /\ UNCHANGED <<phase, held>>
            /\ gpio' = Fresh(gpio)
            /\ last' = Handler("inicializa", -1, <<>>, -1, NoCall)
    /\ UNCHANGED <<Device_Open, minor, message, refs, pc, node, todo>>

\* the initialization sequence, lcd_cls, and the two lines
inicializa_display(l1, l2) ==
    /\ phase = "init_display"
    /\ phase' = StepAfter(phase)
    /\ gpio' = Drive(Fresh(gpio), InitSequence(l1, l2))
    /\ last' = [Handler("inicializa", -1, <<>>, 0, NoCall)
                EXCEPT !.lines = <<l1, l2>>]
    /\ UNCHANGED <<held, Device_Open, minor, message, refs, pc, node, todo>>

\* major = register_chrdev(0, "displaylcd", &fops); if(major < 0) return major;
inicializa_chrdev(ok) ==
    /\ phase = "init_chrdev"
    /\ IF ok THEN Proceed({"chrdev"}) ELSE Abort("chrdev")

\* devclass = class_create(...); devclass->devnode = classmode;
\* if( IS_ERR(devclass) ) { unregister_chrdev(...); return PTR_ERR(devclass); }
inicializa_class(outcome) ==
    /\ phase = "init_class"
    /\ CASE outcome = "ok"   -> Proceed({"class"})
         [] outcome = "err"  -> Abort("class")
         [] outcome = "oops" ->
                /\ phase' = "oops"
                /\ gpio' = Fresh(gpio)
                /\ last' = Handler("inicializa", -1, <<>>, -1, NoCall)
                /\ UNCHANGED <<held, Device_Open, minor, message, refs, pc, node, todo>>

\* dev = device_create(devclass, NULL, MKDEV(major, m), ...); if( IS_ERR(dev) )
\* { undo the registrations; return PTR_ERR(dev); } and, after the third,
\* return 0;
inicializa_device(m, ok) ==
    /\ phase = "init_" \o DevNode(m)
    /\ IF ok THEN Proceed({DevNode(m)}) ELSE Abort(DevNode(m))

\* rmmod, allowed when the use count is zero, enters finaliza:
\* gpio_free_array(pins, ARRAY_SIZE(pins));
finaliza_gpio ==
    /\ phase = "ready"
    /\ refs = 0
    /\ phase' = "exit_devices"
    /\ held' = held \ {"gpio"}
    /\ gpio' = Fresh(gpio)
    /\ last' = Handler("finaliza", -1, <<>>, 0, NoCall)
    /\ UNCHANGED <<Device_Open, minor, message, refs, pc, node, todo>>

\* device_destroy three times, class_unregister, class_destroy
finaliza_devices ==
    /\ phase = "exit_devices"
    /\ phase' = "exit_chrdev"
    /\ held' = held \ {"dev0", "dev1", "dev2", "class"}
    /\ gpio' = Fresh(gpio)
    /\ last' = Handler("finaliza", -1, <<>>, 0, NoCall)
    /\ UNCHANGED <<Device_Open, minor, message, refs, pc, node, todo>>

\* unregister_chrdev, and the return of finaliza
finaliza_chrdev ==
    /\ phase = "exit_chrdev"
    /\ \A p \in Procs : pc[p] = "idle"
    /\ phase' = "unloaded"
    /\ held' = held \ {"chrdev"}
    /\ FreshStatics
    /\ gpio' = Fresh(gpio)
    /\ last' = Handler("finaliza", -1, <<>>, 0, NoCall)
    /\ UNCHANGED <<refs, pc, node, todo>>

NextLife ==
    \/ \E ok \in BOOLEAN : inicializa_request(ok)
    \/ inicializa_display(line1_default, line2_default)
    \/ \E ok \in BOOLEAN : inicializa_chrdev(ok)
    \/ \E outcome \in {"ok", "err", "oops"} : inicializa_class(outcome)
    \/ \E m \in Minors, ok \in BOOLEAN : inicializa_device(m, ok)
    \/ finaliza_gpio
    \/ finaliza_devices
    \/ finaliza_chrdev
    \/ \E p \in Procs, m \in Minors : device_open(p, m)
    \/ \E p \in Procs : device_release(p)
    \/ \E p \in Procs : \E buf \in RacePayloads(minor) : Write(p, buf)

SpecLife == Init /\ [][NextLife]_vars

-----------------------------------------------------------------------------
(* The transfer routines called on their own, on every unsigned char value  *)
(* and with RS at either level, as their callers leave it.                  *)

\* gpio_set_value(pins[RS].gpio, v) by a caller, before a transfer
Run_set_RS(v) ==
    /\ gpio' = Drive(Fresh(gpio), << <<RS, v>> >>)
    /\ last' = Handler("set_RS", -1, <<>>, 0, Call("gpio_set_value", v))
    /\ UNCHANGED <<phase, held, Device_Open, minor, message, refs, pc, node, todo>>

Run_lcd_nibble(v) ==
    /\ gpio' = Drive(Fresh(gpio), lcd_nibble(v))
    /\ last' = Handler("lcd_nibble", -1, <<>>, 0, Call("lcd_nibble", v))
    /\ UNCHANGED <<phase, held, Device_Open, minor, message, refs, pc, node, todo>>

Run_lcd_byte(b) ==
    /\ gpio' = Drive(Fresh(gpio), lcd_byte(b))
    /\ last' = Handler("lcd_byte", -1, <<>>, 0, Call("lcd_byte", b))
    /\ UNCHANGED <<phase, held, Device_Open, minor, message, refs, pc, node, todo>>

\* the values of an unsigned char
UChar == 0..255

NextTransfer ==
    \/ \E v \in 0..1 : Run_set_RS(v)
    \/ \E v \in UChar : Run_lcd_nibble(v)
    \/ \E b \in UChar : Run_lcd_byte(b)

SpecTransfer == Init /\ [][NextTransfer]_vars

-----------------------------------------------------------------------------
(* device_write run by two threads at once on one open file.  Each write    *)
(* is its dispatch followed by the gpio_set_value calls of the routine it   *)
(* dispatched to, one call per step, so that the calls of two writes        *)
(* interleave.  The record of calls is not kept while writes are in flight; *)
(* of what the controller latches, the last MaxSeen nibbles are.            *)

\* the holder is process 1, on the plain or on the clear node
ThreadMinors == {0, 1}

\* "H" on the plain node, the empty payload on the clear node
ThreadPayloads(m) ==
    CASE m = 0 -> { <<72>> }
      [] m = 1 -> { <<>> }

\* the lines h with the record of calls dropped and the oldest received byte
\* forgotten once more than MaxSeen nibbles are remembered
Recent(h) ==
    [h EXCEPT !.calls = <<>>,
              !.latched = IF Len(h.latched) > MaxSeen
                          THEN SubSeq(h.latched, 3, Len(h.latched))
                          ELSE h.latched]

\* Faulty variant of WriteAdmitted in which a write waits for the write in
\* flight to finish; C19_NoSerialization rejects it.
WriteAdmitted_Exclusive(t) ==
    \A u \in Threads \ {t} : todo[u] = <<>>

\* what device_write waits for on entry: nothing, it takes no lock
WriteAdmitted(t) == TRUE

\* no write is in flight
Quiescent == \A t \in Threads : todo[t] = <<>>

\* device_write entered by thread t of the holder: the dispatch, up to the
\* call of the controller routine
WriteBegin(t, buf) ==
    /\ \E p \in Procs : pc[p] = "open"
    /\ todo[t] = <<>>
    /\ WriteAdmitted(t)
    /\ LET r == device_write(message, minor, buf)
       IN  /\ todo' = [todo EXCEPT ![t] = r.calls]
           /\ message' = r.message
           /\ last' = Handler("write", minor, buf, r.ret, r.called)
    /\ gpio' = IF Quiescent THEN Fresh(gpio) ELSE gpio
    /\ UNCHANGED <<phase, held, Device_Open, minor, refs, pc, node>>

\* the next gpio_set_value call of the write of thread t
WriteStep(t) ==
    /\ todo[t] # <<>>
    /\ gpio' = Recent(gpio_set_value(gpio, Head(todo[t])[1], Head(todo[t])[2]))
    /\ todo' = [todo EXCEPT ![t] = Tail(todo[t])]
    /\ UNCHANGED <<phase, held, Device_Open, minor, message, refs, pc, node, last>>

NextThreads ==
    \/ inicializa(line1_default, line2_default, "none")
    \/ \E m \in ThreadMinors : device_open(1, m)
    \/ device_release(1)

    \/ \E t \in Threads : \E buf \in ThreadPayloads(minor) : WriteBegin(t, buf)
    \/ \E t \in Threads : WriteStep(t)

SpecThreads == Init /\ [][NextThreads]_vars

-----------------------------------------------------------------------------
Next ==
    \/ \E l1 \in Line1Values, l2 \in Line2Values, f \in FailPoints :
          inicializa(l1, l2, f)
    \/ finaliza
    \/ \E p \in Procs, m \in Minors : device_open(p, m)
    \/ \E p \in Procs : device_release(p)
    \/ \E p \in Procs : device_read(p)
    \/ \E p \in Procs : \E buf \in Payloads(minor) : Write(p, buf)

\* the driver used through /dev/displaylcd_pos alone
NextPos ==
    \/ \E f \in {"none", "gpio"} : inicializa(line1_default, line2_default, f)
    \/ finaliza
    \/ \E p \in Procs : device_open(p, 2)
    \/ \E p \in Procs : device_release(p)
    \/ \E p \in Procs : \E buf \in PosPayloads : Write(p, buf)

Spec == Init /\ [][Next]_vars

SpecPos == Init /\ [][NextPos]_vars

\* open calls of different processes interleaved statement by statement
NextRace ==
    \/ inicializa(line1_default, line2_default, "none")
    \/ finaliza
    \/ \E p \in Procs, m \in Minors : OpenCheck(p, m)
    \/ \E p \in Procs : OpenSet(p)
    \/ \E p \in Procs : device_release(p)
    \/ \E p \in Procs : \E buf \in RacePayloads(minor) : Write(p, buf)

SpecRace == Init /\ [][NextRace]_vars

-----------------------------------------------------------------------------
(* Properties *)

\* what the controller received during the last handler, as bytes
Sent == Received(gpio.latched)

\* one byte sent as a command: both nibbles latched with RS low
Command(b) == [rs |-> 0, rs2 |-> 0, byte |-> b]
\* one byte sent as a character: both nibbles latched with RS high
Character(b) == [rs |-> 1, rs2 |-> 1, byte |-> b]

\* the last handler was a write that device_write did not reject as too long
Accepted(m) ==
    last.op = "write" /\ last.minor = m /\ Len(last.buf) <= 30

Min(a, b) == IF a < b THEN a ELSE b

\* 0-based index of the first zero byte of s, Len(s) when it has none
FirstZero(s) ==
    LET Z == {i \in 1..Len(s) : s[i] = 0}
    IN  IF Z = {} THEN Len(s)
        ELSE (CHOOSE i \in Z : \A j \in Z : i <= j) - 1

\* the digit value the specification gives a payload byte: b - '0' for an
\* ASCII digit, 0 for any other byte
DigitOr0(b) == IF b \in 48..57 THEN b - 48 ELSE 0

\* the controller address the specification gives position p
Address(p) == (p - 1) + (IF p - 1 >= 16 THEN 48 ELSE 0)

(* C1, as stated: whenever lcd_pos is called with a position p in 1..32,    *)
(* exactly one byte is transferred, as a command (RS low for both nibbles),  *)
(* and its value is Address(p) | 0x80, i.e. Address(p) + 128; p = 1, 16, 17  *)
(* and 32 give 0x80, 0x8F, 0xC0 and 0xEF.                                    *)
C1_AsStated ==
    (last.op = "write" /\ last.called.fn = "lcd_pos" /\ last.called.arg \in 1..32)
    => /\ Len(gpio.latched) = 2
       /\ Sent = << Command(Address(last.called.arg) + 128) >>
       /\ last.called.arg = 1 => Sent[1].byte = 128
       /\ last.called.arg = 16 => Sent[1].byte = 143
       /\ last.called.arg = 17 => Sent[1].byte = 192
       /\ last.called.arg = 32 => Sent[1].byte = 239

(* C1, amended: the same, with p = 32 giving 0xCF (address 79 = 0x4F, with  *)
(* the command bit 0xCF = 207), not 0xEF.                                    *)
C1_PosCommand ==
    (last.op = "write" /\ last.called.fn = "lcd_pos" /\ last.called.arg \in 1..32)
    => /\ Len(gpio.latched) = 2
       /\ Sent = << Command(Address(last.called.arg) + 128) >>
       /\ last.called.arg = 1 => Sent[1].byte = 128
       /\ last.called.arg = 16 => Sent[1].byte = 143
       /\ last.called.arg = 17 => Sent[1].byte = 192
       /\ last.called.arg = 32 => Sent[1].byte = 207

C1_Witness ==
    /\ last.op = "write" /\ last.called = Call("lcd_pos", 32)
    /\ Len(gpio.latched) = 2
    /\ Sent = << Command(207) >>

(* C2: whenever lcd_pos is called with a position outside 1..32, it makes   *)
(* no gpio_set_value call and the controller latches nothing.                *)
C2_OutOfRangeSilent ==
    (last.op = "write" /\ last.called.fn = "lcd_pos" /\ last.called.arg \notin 1..32)
    => gpio.calls = <<>> /\ gpio.latched = <<>>

(* C3: a print of the message buffer transfers exactly the first             *)
(* min(16, index of the first zero byte) bytes of the buffer, in order, each *)
(* as a character, and nothing else.                                         *)
C3_PrintPrefix ==
    (last.op = "write" /\ last.called.fn = "lcd_print")
    => LET n == Min(16, FirstZero(message))
       IN  /\ Len(gpio.latched) = 2 * n
           /\ Sent = [i \in 1..n |-> Character(message[i])]

C3_Witness ==
    /\ last.op = "write" /\ last.called.fn = "lcd_print"
    /\ last.buf = SubSeq(Letters31, 1, 20)
    /\ FirstZero(message) = 20
    /\ Sent = [i \in 1..16 |-> Character(Letters31[i])]

(* C4: once the module is loaded, between handlers the RS line is high, and *)
(* a handler that made any gpio_set_value call ended by setting RS high.     *)
C4_ModeCharacter ==
    phase = "ready"
    => /\ gpio.level[RS] = 1
       /\ gpio.calls # <<>> => gpio.calls[Len(gpio.calls)] = <<RS, 1>>

C4_Witness ==
    /\ phase = "ready"
    /\ last.op = "write" /\ last.called = Call("lcd_pos", 17)
    /\ Sent = << Command(192) >>
    /\ gpio.level[RS] = 1

(* C5: an accepted write on the clear channel, whatever its payload, first  *)
(* sets RS low, transfers exactly one byte, the command 0x01, and leaves RS  *)
(* high.                                                                     *)
C5_ClearChannel ==
    Accepted(1)
    => /\ last.called = Call("lcd_cls", -1)
       /\ gpio.calls[1] = <<RS, 0>>
       /\ Len(gpio.latched) = 2
       /\ Sent = << Command(1) >>
       /\ gpio.level[RS] = 1

C5_Witness ==
    /\ Accepted(1) /\ last.buf = <<>>
    /\ Sent = << Command(1) >>
    /\ gpio.level[RS] = 1

(* C6: a step that is a write of more than 30 bytes changes no line, makes  *)
(* no gpio_set_value call, leaves the message buffer as it was, calls no     *)
(* controller routine and returns the full length.                           *)
C6_TooLongIgnored ==
    [][ (last'.op = "write" /\ Len(last'.buf) > 30)
        => /\ gpio'.level = gpio.level
           /\ gpio'.calls = <<>>
           /\ gpio'.latched = <<>>
           /\ message' = message
           /\ last'.called = NoCall
           /\ last'.ret = Len(last'.buf) ]_vars

C6_Witness ==
    /\ last.op = "write" /\ last.minor = 0 /\ last.buf = Letters31
    /\ last.ret = 31
    /\ gpio.calls = <<>>

\* the value the specification computes from the first two payload bytes
SpecValue(buf) == DigitOr0(buf[1]) * 10 + DigitOr0(buf[2])

\* the value with the second byte counted only when it is a digit
DigitValue(buf) ==
    IF buf[2] \in 48..57
    THEN DigitOr0(buf[1]) * 10 + (buf[2] - 48)
    ELSE DigitOr0(buf[1])

\* the outcome of a position write that calls lcd_pos(v) exactly when 0 < v <= 32
CallsPosIff(v) ==
    IF 0 < v /\ v <= 32
    THEN /\ last.called = Call("lcd_pos", v)
         /\ Sent = << Command(Address(v) + 128) >>
    ELSE /\ last.called = NoCall
         /\ gpio.calls = <<>>

(* C7, as stated: an accepted position write of two or more bytes computes  *)
(* value = digit(byte0) * 10 + digit(byte1), a non-digit byte counting as 0, *)
(* and calls lcd_pos(value) if and only if 0 < value <= 32.                  *)
C7_AsStated ==
    (Accepted(2) /\ Len(last.buf) >= 2) => CallsPosIff(SpecValue(last.buf))

(* C7, amended: the value is digit(byte0) * 10 + digit(byte1) when byte1 is *)
(* an ASCII digit and digit(byte0) alone when it is not (a non-digit byte0   *)
(* counting as 0); bytes after the second are ignored and lcd_pos(value) is  *)
(* called if and only if 0 < value <= 32.  So "5\n" gives 5 and a call.      *)
C7_TwoBytePath ==
    (Accepted(2) /\ Len(last.buf) >= 2) => CallsPosIff(DigitValue(last.buf))

C7_Witness ==
    /\ Accepted(2) /\ last.buf = <<53, 10>>
    /\ last.called = Call("lcd_pos", 5)
    /\ Sent = << Command(132) >>

(* C8: an accepted position write whose computed position is 0 or above 32  *)
(* makes no gpio_set_value call and the controller latches nothing; this     *)
(* covers the one-byte payload "0" as well as the two-byte payload "00".     *)
C8_OutOfRangeNoTransfer ==
    LET v == IF Len(last.buf) = 1 THEN DigitOr0(last.buf[1])
             ELSE DigitValue(last.buf)
    IN  (Accepted(2) /\ Len(last.buf) >= 1 /\ ~(0 < v /\ v <= 32))
        => gpio.calls = <<>> /\ gpio.latched = <<>>

(* C9: for every digit d in 1..9 the payloads "d" and "0d" on the position  *)
(* channel end in the same call lcd_pos(d), the same gpio_set_value calls    *)
(* and the same single command byte.                                         *)
C9_PathEquivalence ==
    \A d \in 1..9 :
        LET one == device_write(message, 2, <<48 + d>>)
            two == device_write(message, 2, <<48, 48 + d>>)
        IN  /\ one.called = two.called
            /\ one.calls = two.calls
            /\ (Accepted(2) /\ last.buf \in {<<48 + d>>, <<48, 48 + d>>})
               => /\ last.called = Call("lcd_pos", d)
                  /\ gpio.calls = one.calls
                  /\ Sent = << Command(128 + d - 1) >>

C9_Witness ==
    /\ Accepted(2) /\ last.buf = <<48, 53>>
    /\ last.called = Call("lcd_pos", 5)
    /\ gpio.calls = device_write(message, 2, <<53>>).calls
    /\ Sent = << Command(132) >>

(* C10: at most one process holds the device open at a time.                *)
C10_SingleHolder ==
    Cardinality({p \in Procs : pc[p] = "open"}) <= 1

-----------------------------------------------------------------------------
(* A simulated HD44780 controller: what its display memory holds after the  *)
(* nibbles it latched.  It powers up in 8-bit mode, where each of the first  *)
(* four nibbles (3, 3, 3, 2) is an instruction of its own; from then on it   *)
(* is in 4-bit mode and pairs nibbles into bytes.  Address counter           *)
(* auto-increment is on; Clear Display blanks the memory and resets the      *)
(* address counter to 0; 0x80 | a sets the address counter to a.  A cell     *)
(* holding -1 has not been written since the last clear.                     *)

BlankDisplay == [ddram |-> [a \in 0..127 |-> -1], ac |-> 0]

\* the effect of one received byte b = [rs, rs2, byte] on the display d
Execute(d, b) ==
    IF b.rs = 0
    THEN IF b.byte = 1 THEN BlankDisplay
         ELSE IF b.byte >= 128 THEN [d EXCEPT !.ac = b.byte - 128]
         ELSE d
    ELSE [ddram |-> [d.ddram EXCEPT ![d.ac] = b.byte],
          ac    |-> (d.ac + 1) % 128]

\* the display after the first n of the bytes bs
RECURSIVE DisplayAfter(_, _)
DisplayAfter(bs, n) ==
    IF n = 0 THEN BlankDisplay
    ELSE Execute(DisplayAfter(bs, n - 1), bs[n])

\* the display after a power-up followed by the latched nibbles l
StartupDisplay(l) ==
    LET bs == Received(SubSeq(l, 5, Len(l)))
    IN  DisplayAfter(bs, Len(bs))

\* the display memory with the first 16 characters of l1 from address 0x00,
\* those of l2 from address 0x40 and nothing else
TwoLines(l1, l2) ==
    [a \in 0..127 |->
        IF a < Min(16, Len(l1)) THEN l1[a + 1]
        ELSE IF a >= 64 /\ a - 64 < Min(16, Len(l2)) THEN l2[a - 63]
        ELSE -1]

(* C11: when inicializa has run the initialization sequence, print(line1),  *)
(* set_cursor(17) and print(line2), the simulated controller holds the first *)
(* min(16, length) characters of line1 from address 0x00, those of line2     *)
(* from address 0x40, and nothing else.                                      *)
C11_StartupDisplay ==
    (last.op = "inicializa" /\ gpio.calls # <<>>)
    => StartupDisplay(gpio.latched).ddram = TwoLines(last.lines[1], last.lines[2])

C11_Witness ==
    /\ last.op = "inicializa" /\ phase = "ready"
    /\ last.lines = <<SubSeq(Letters31, 1, 20), line2_default>>
    /\ StartupDisplay(gpio.latched).ddram[15] = 80
    /\ StartupDisplay(gpio.latched).ddram[16] = -1
    /\ StartupDisplay(gpio.latched).ddram[64] = 32
    /\ StartupDisplay(gpio.latched).ddram[66] = 76

(* C12: when inicializa returns an error, whichever step failed (pin         *)
(* acquisition, character device, class, device nodes), the initialization   *)
(* sequence has not been run on the lines, no resource is still held (the    *)
(* six GPIO lines included) and the driver accepts no write.                 *)
C12_FailureClean ==
    (last.op = "inicializa" /\ last.ret # 0)
    => /\ gpio.calls = <<>>
       /\ held = {}
       /\ phase = "unloaded"

\* the last handler was a write that called a controller routine
Dispatched == last.op = "write" /\ last.called # NoCall

\* the step runs the initialization sequence on the lines
RunsInitSequence == last'.op = "inicializa" /\ gpio'.calls # <<>>

(* C13: every step that dispatches a write to lcd_print, lcd_cls or lcd_pos  *)
(* starts after the initialization sequence has completed (RS is high, as    *)
(* lcd_cls left it); and the initialization sequence is run only as the      *)
(* step of inicializa that follows the pin request, on lines that are all    *)
(* low and with no process holding the device, so once per load and before   *)
(* any dispatched write.                                                     *)
C13_InitFirst ==
    [][ /\ (last'.op = "write" /\ last'.called # NoCall)
            => /\ gpio.level[RS] = 1
               /\ phase \notin {"unloaded", "init_display"}
        /\ RunsInitSequence
            => /\ phase = "init_display"
               /\ gpio.level = [p \in PinIdx |-> 0]
               /\ gpio'.level[RS] = 1
               /\ \A p \in Procs : pc[p] = "idle" ]_vars

C13_Witness ==
    /\ Dispatched /\ last.called.fn = "lcd_print"
    /\ phase = "init_dev1"
    /\ gpio.level[RS] = 1

(* C18: the six GPIO lines are held whenever the initialization sequence    *)
(* runs; while they are not held the character device and the device nodes   *)
(* are gone (the lines are released only after the driver stopped accepting  *)
(* writes); and no write makes a gpio_set_value call on lines that are not   *)
(* held.                                                                     *)
C18_PinLifetime ==
    /\ (last.op = "inicializa" /\ gpio.calls # <<>>) => "gpio" \in held
    /\ "gpio" \notin held => held = {}
    /\ (last.op = "write" /\ gpio.calls # <<>>) => "gpio" \in held

\* every latched nibble of the last handler was latched with RS at level r
AllLatchedWith(r) ==
    \A i \in 1..Len(gpio.latched) : gpio.latched[i].rs = r

(* C14: a write that calls lcd_cls or lcd_pos has the controller latch       *)
(* exactly the two nibbles of the command byte, both with RS low; a write    *)
(* that calls lcd_print has every nibble of every text byte latched with RS  *)
(* high; so no write sends a character with RS low.                          *)
C14_ModePerByte ==
    last.op = "write"
    => /\ last.called.fn \in {"lcd_cls", "lcd_pos"}
          => Len(gpio.latched) = 2 /\ AllLatchedWith(0)

       /\ last.called.fn = "lcd_cls" => Sent[1].byte = 1
       /\ last.called.fn = "lcd_pos" => Sent[1].byte >= 128
       /\ last.called.fn = "lcd_print" => AllLatchedWith(1)

C14_Witness ==
    /\ last.op = "write" /\ last.called.fn = "lcd_print"
    /\ Len(gpio.latched) = 32
    /\ AllLatchedWith(1)
    /\ phase = "ready"

\* the data lines
DataPins == {DB4, DB5, DB6, DB7}

\* the level of the line pin just before the i-th of the calls cs, when it
\* was at level start before the first
LevelBefore(cs, i, pin, start) ==
    LET S == {j \in 1..(i - 1) : cs[j][1] = pin}
    IN  IF S = {} THEN start
        ELSE cs[CHOOSE j \in S : \A k \in S : k <= j][2]

(* C15: every step that is a call lcd_nibble(v) starts and ends with EN low, *)
(* raises EN first and lowers it last, in between sets DB4..DB7, in this     *)
(* order and only while EN is high, to bits 0..3 of v (DB4 the least         *)
(* significant, the upper four bits of v ignored), has the controller latch  *)
(* exactly one nibble, v mod 16, at the falling edge with RS as the caller   *)
(* left it, and makes no call on RS, whose level is unchanged.               *)
C15_NibbleProtocol ==
    [][ last'.op = "lcd_nibble"
        => LET v == last'.called.arg
               cs == gpio'.calls
           IN  /\ gpio.level[EN] = 0
               /\ gpio'.level[EN] = 0
               /\ Len(cs) = 6
               /\ cs[1] = <<EN, 1>> /\ cs[6] = <<EN, 0>>
               /\ <<cs[2][1], cs[3][1], cs[4][1], cs[5][1]>> = <<DB4, DB5, DB6, DB7>>
               /\ cs[2][2] + 2 * cs[3][2] + 4 * cs[4][2] + 8 * cs[5][2] = v % 16
               /\ \A i \in 1..Len(cs) :
                     /\ cs[i][1] \in DataPins => LevelBefore(cs, i, EN, gpio.level[EN]) = 1
                     /\ cs[i][1] # RS
               /\ gpio'.latched = << [rs |-> gpio.level[RS], nib |-> v % 16] >>
               /\ gpio'.level[RS] = gpio.level[RS]
               /\ gpio'.level[DB4] = v % 2 ]_vars

C15_Witness ==
    /\ last.op = "lcd_nibble" /\ last.called.arg = 165
    /\ gpio.latched = << [rs |-> 1, nib |-> 5] >>
    /\ gpio.level = [p \in PinIdx |-> IF p \in {RS, DB4, DB6} THEN 1 ELSE 0]

(* C16: every step that is a call lcd_byte(b) produces exactly two falling   *)
(* edges of EN, the first latching b div 16 and the second b mod 16, both    *)
(* with RS as the caller left it, so that the 4-bit receiver recovers        *)
(* first * 16 + second = b; RS is set exactly once, to high, as the last     *)
(* call, after both nibbles have been latched.                               *)
C16_ByteRoundTrip ==
    [][ last'.op = "lcd_byte"
        => LET b == last'.called.arg
               cs == gpio'.calls
               l == gpio'.latched
           IN  /\ Len(l) = 2
               /\ l[1] = [rs |-> gpio.level[RS], nib |-> b \div 16]
               /\ l[2] = [rs |-> gpio.level[RS], nib |-> b % 16]
               /\ Len(Received(l)) = 1
               /\ Received(l)[1].byte = b
               /\ {i \in 1..Len(cs) : cs[i][1] = RS} = {Len(cs)}
               /\ cs[Len(cs)] = <<RS, 1>>
               /\ Cardinality({i \in 1..Len(cs) : cs[i] = <<EN, 0>>}) = 2
               /\ gpio'.level[RS] = 1 ]_vars

C16_Witness ==
    /\ last.op = "lcd_byte" /\ last.called.arg = 165
    /\ gpio.latched = << [rs |-> 0, nib |-> 10], [rs |-> 0, nib |-> 5] >>
    /\ Received(gpio.latched) = << Command(165) >>
    /\ gpio.level[RS] = 1

\* the nibbles of the start-up: wake-up 3, 3, 3, switch to 4-bit 2, Function
\* Set 0x28, Display Control 0x0C, Entry Mode 0x06, Clear Display 0x01
StartupNibbles == <<3, 3, 3, 2, 2, 8, 0, 12, 0, 6, 0, 1>>

(* C17: when inicializa runs the initialization sequence, the first twelve   *)
(* nibbles the controller latches are 3, 3, 3, 2, 2, 8, 0, C, 0, 6, 0, 1 in  *)
(* this order, all latched with RS low, and the first call that sets RS high *)
(* comes after exactly these twelve falling edges of EN.                     *)
C17_InitOrder ==
    (last.op = "inicializa" /\ gpio.calls # <<>>)
    => LET cs == gpio.calls
           High == {i \in 1..Len(cs) : cs[i] = <<RS, 1>>}
           firstHigh == CHOOSE i \in High : \A j \in High : i <= j
       IN  /\ Len(gpio.latched) >= 12
           /\ SubSeq(gpio.latched, 1, 12)
                = [i \in 1..12 |-> [rs |-> 0, nib |-> StartupNibbles[i]]]
           /\ High # {}
           /\ Cardinality({i \in 1..(firstHigh - 1) : cs[i] = <<EN, 0>>}) = 12

C17_Witness ==
    /\ last.op = "inicializa" /\ phase = "ready"
    /\ last.lines = <<line1_default, line2_default>>
    /\ Len(gpio.latched) = 78
    /\ gpio.latched[4] = [rs |-> 0, nib |-> 2]
    /\ gpio.latched[12] = [rs |-> 0, nib |-> 1]
    /\ gpio.latched[13] = [rs |-> 1, nib |-> 2]

\* thread t can enter device_write now
CanBeginWrite(t) ==
    ENABLED (\E buf \in ThreadPayloads(minor) : WriteBegin(t, buf))


(* C19: device_write has no serialization of its own: whenever the device is *)
(* held, a thread with no write in flight can enter device_write, also while *)
(* the write of the other thread is in flight, and a write in flight can     *)
(* always make its next gpio_set_value call.  (The corrupted stream such an  *)
(* overlap produces is the state C19_Witness.)                               *)
C19_NoSerialization ==
    \A t \in Threads :
        /\ ((\E p \in Procs : pc[p] = "open") /\ todo[t] = <<>>) => CanBeginWrite(t)
        /\ todo[t] # <<>> => ENABLED WriteStep(t)

(* Two overlapping writes on the clear channel, both finished: the          *)
(* controller received the bytes 0x00 and 0x11, each made of one nibble from *)
(* either write, the second with its low nibble latched with RS high,        *)
(* instead of the command 0x01 twice.                                        *)
C19_Witness ==
    /\ Quiescent
    /\ last.op = "write" /\ last.minor = 1
    /\ Sent = << [rs |-> 0, rs2 |-> 0, byte |-> 0],
                 [rs |-> 0, rs2 |-> 1, byte |-> 17] >>

(* C20: every step that is a write on the plain channel and reaches          *)
(* lcd_print has a payload of at most 30 bytes, stores the payload in        *)
(* message[0..len-1] and the terminator in message[len], len <= 30, changes  *)
(* no other byte of the 32-byte buffer, and transmits as characters exactly  *)
(* the first min(16, len, index of the first zero byte) bytes of its own     *)
(* payload, whatever an earlier write left in the buffer.                    *)
C20_NoLeakNoOverrun ==
    [][ (last'.op = "write" /\ last'.minor = 0 /\ last'.called # NoCall)
        => LET buf == last'.buf
               len == Len(buf)
               n == Min(16, FirstZero(buf))
           IN  /\ len <= 30
               /\ DOMAIN message' = 1..32
               /\ \A i \in 1..32 :
                     message'[i] = IF i <= len THEN buf[i]
                                   ELSE IF i = len + 1 THEN 0
                                   ELSE message[i]
               /\ Received(gpio'.latched) = [i \in 1..n |-> Character(buf[i])] ]_vars

C20_Witness ==
    /\ Accepted(0) /\ last.buf = <<72, 69, 76, 76, 79>>
    /\ message[6] = 0
    /\ message[7] = 71 /\ message[30] = 100
    /\ Sent = [i \in 1..5 |-> Character(last.buf[i])]

\* the step is an open that fails with -EBUSY
RejectedOpen == last'.op = "open" /\ last'.ret = -EBUSY

(* C21: an open that fails with -EBUSY happens only while the device is     *)
(* held and changes neither Device_Open nor the stored minor (nor the use    *)
(* count, the message buffer or who holds the device); every write of the    *)
(* holder is dispatched on the minor of the node the holder opened; a        *)
(* release clears Device_Open; and an open made while Device_Open is clear   *)
(* succeeds and stores the minor of the node it opened.                      *)
C21_RejectedOpenFrame ==
    [][ /\ RejectedOpen
            => /\ Device_Open # 0
               /\ UNCHANGED <<Device_Open, minor, refs, message, pc, node>>
        /\ last'.op = "write"
            => \E p \in Procs : pc[p] = "open" /\ last'.minor = node[p]
        /\ last'.op = "release" => Device_Open' = 0
        /\ (last'.op = "open" /\ Device_Open = 0)
            => /\ last'.ret = 0
               /\ Device_Open' = 1
               /\ \E p \in Procs :
                     /\ pc[p] = "idle" /\ pc'[p] = "open"
                     /\ minor' = node'[p]
                     /\ last'.minor = node'[p] ]_vars

\* a rejected open has just returned while the holder has the position node
\* open and the stored minor is still 2
C21_Witness ==
    /\ last.op = "open" /\ last.ret = -EBUSY
    /\ Device_Open = 1 /\ minor = 2
    /\ pc = [p \in Procs |-> IF p = 1 THEN "open" ELSE "idle"]
    /\ node[1] = 2
    /\ refs = 1

=============================================================================

